---- MODULE Spec2Model ----
(***************************************************************************)
(* Model of drone-simulation.py: the DronePhysics trajectory model and the *)
(* DroneSimulator WebSocket server (one handle_client per connection, each *)
(* running physics_loop and message_handler under asyncio.gather).         *)
(*                                                                         *)
(* Numbers are fixed point:                                                *)
(*   degrees   in units of 1/32 microdegree (radius 0.0008 -> 25600)       *)
(*   angles    in microradians          (2*pi -> 6283185)                  *)
(*   time      in milliseconds          (0.01 s -> 10)                     *)
(*   cos/sin   scaled by CosScale       (1.0 -> 50000)                     *)
(*   random()  in tenths                (0.0 -> 0, 0.5 -> 5, ~1.0 -> 10)   *)
(*   altitude  in metres                                                   *)
(***************************************************************************)
EXTENDS Integers, Sequences, FiniteSets, TLC

VARIABLES
    server,         \* start_server: "init" before websockets.serve, then "listening"
    hpc,            \* hpc[c]: position of handle_client for connection c
    open,           \* open[c]: the transport of c is open
    inbox,          \* inbox[c]: inbound frames received and not yet iterated
    sent,           \* sent[c]: outbound frames, in the order they were sent
    ppc,            \* ppc[c]: position of physics_loop
    dpc,            \* dpc[c]: position of message_handler
    message,        \* message[c]: the frame message_handler is holding
    drone_physics,  \* drone_physics[c]: the DronePhysics object of the handler
    last_time,      \* last_time[c]: the nonlocal last_time of the handler
    rng,            \* state of the process-wide generator behind random.random()
    clock,          \* the wall clock time.time() and datetime.now() read, in ms
    clock_n,        \* number of times the wall clock has changed
    dp,             \* a stand-alone DronePhysics object (driven by PhysSpec)
    dp_twin,        \* a second object, given the dt of dp and noise draws of its own
    dp_n            \* number of update calls made on dp

vars ==
    <<server, hpc, open, inbox, sent, ppc, dpc, message, drone_physics,
      last_time, rng, clock, clock_n, dp, dp_twin, dp_n>>

----------------------------------------------------------------------------
(* Bounds of the model *)

\* gps frames sent, over all connections, before the publishers are held back
MaxGps == 2

\* inbound frames waiting in the receive queues, over all connections
MaxInbox == 1

\* changes of the wall clock a run sees
MaxClockSets == 1

\* update calls made on the stand-alone object
MaxUpdates == 3

\* update calls made on each of the two objects run side by side
MaxTwinUpdates == 2

\* the two connections, enough for one to interfere with the other
Conns == {"A", "B"}

----------------------------------------------------------------------------
(* Arithmetic *)

\* a / b rounded to the nearest integer (b > 0), as a float operation rounds
RoundDiv(a, b) == (a + b \div 2) \div b

CosScale == 50000

Pi == 3141593

TwoPi == 6283185

HalfPi == 1570796

\* cos at k * CosStep microradians, k = 0..64, scaled by CosScale
CosTable ==
    <<50000, 49985, 49940, 49865, 49759, 49624, 49459, 49264, 49039, 48785,
      48502, 48189, 47847, 47476, 47077, 46650, 46194, 45710, 45199, 44661,
      44096, 43504, 42886, 42242, 41573, 40879, 40160, 39417, 38650, 37860,
      37047, 36212, 35355, 34477, 33578, 32658, 31719, 30761, 29784, 28790,
      27778, 26749, 25705, 24644, 23569, 22480, 21377, 20261, 19133, 17994,
      16844, 15683, 14513, 13335, 12148, 10954, 9754, 8547, 7336, 6120,
      4900, 3677, 2452, 1226, -1>>

CosStep == 24544

\* cos on the first quadrant, by linear interpolation in CosTable
CosQuadrant(x) ==
    LET i == x \div CosStep
        rem == x - i * CosStep
    IN  IF x >= HalfPi THEN 0
        ELSE CosTable[i + 1]
               + RoundDiv((CosTable[i + 2] - CosTable[i + 1]) * rem, CosStep)

\* math.cos
cos(angle) ==
    LET a == angle % TwoPi
        b == IF a > Pi THEN TwoPi - a ELSE a
    IN  IF b <= HalfPi THEN CosQuadrant(b) ELSE -CosQuadrant(Pi - b)

\* math.sin
sin(angle) == cos(angle + TwoPi - HalfPi)

----------------------------------------------------------------------------
(* DronePhysics *)

angular_speed == 150

radius == 25600

smooth_factor == 19

smooth_den == 20

noise_amplitude == 32

\* radius * angular_speed, in units per second
radius_speed == (radius * angular_speed) \div 1000

\* radius * angular_speed ** 2, in units per second squared
radius_speed2 == (radius * angular_speed * angular_speed) \div 1000000

DronePhysics(init_lat, init_lng, init_alt) ==
    LET angle == 0
        lat == init_lat + RoundDiv(radius * cos(angle), CosScale)
        lng == init_lng + RoundDiv(radius * sin(angle), CosScale)
    IN  [ base_lat |-> init_lat,
          base_lng |-> init_lng,
          angle |-> angle,
          lat |-> lat,
          lng |-> lng,
          alt |-> init_alt,
          vel_lat |-> -RoundDiv(radius_speed * sin(angle), CosScale),
          vel_lng |-> RoundDiv(radius_speed * cos(angle), CosScale),
          vel_alt |-> 0,
          acc_lat |-> -RoundDiv(radius_speed2 * cos(angle), CosScale),
          acc_lng |-> -RoundDiv(radius_speed2 * sin(angle), CosScale),
          acc_alt |-> 0,
          target_lat |-> lat,
          target_lng |-> lng,
          target_alt |-> init_alt ]

\* the angle of update without the wrap
advance_angle_nowrap(angle, dt) == angle + angular_speed * dt

\* self.angle = (self.angle + self.angular_speed * dt) % (2.0 * math.pi)
advance_angle(angle, dt) == (angle + angular_speed * dt) % TwoPi

\* a smoothing that takes the new value whole
smooth_jump(old, new) == new

\* smooth_factor * old + (1 - smooth_factor) * new, the product split so that
\* it stays within the integers TLC computes with
smooth(old, new) ==
    smooth_factor * (old \div smooth_den)
      + RoundDiv(smooth_factor * (old % smooth_den) + (smooth_den - smooth_factor) * new,
                 smooth_den)

\* a noise that spans the amplitude on either side
noise_either_side(r) == RoundDiv((2 * r - 10) * noise_amplitude, 10)

\* (random.random() - 0.5) * self.noise_amplitude, r the value random() returned
noise(r) == RoundDiv((r - 5) * noise_amplitude, 10)

\* the vertical components update writes, had it integrated a climb
vertical_climb(m, dt) ==
    [vel_alt |-> 1, acc_alt |-> 0, alt |-> m.alt + dt]

\* the vertical components update writes: alt is not assigned
vertical(m, dt) ==
    [vel_alt |-> 0, acc_alt |-> 0, alt |-> m.alt]

\* an update whose target is the position before the call
update_target_behind(m, dt, r_lat, r_lng) ==
    LET angle == advance_angle(m.angle, dt)
        new_lat == m.base_lat + RoundDiv(radius * cos(angle), CosScale)
        new_lng == m.base_lng + RoundDiv(radius * sin(angle), CosScale)
        lat == smooth(m.lat, new_lat) + noise(r_lat)
        lng == smooth(m.lng, new_lng) + noise(r_lng)
        raw_vel_lat == -RoundDiv(radius_speed * sin(angle), CosScale)
        raw_vel_lng == RoundDiv(radius_speed * cos(angle), CosScale)
        raw_acc_lat == -RoundDiv(radius_speed2 * cos(angle), CosScale)
        raw_acc_lng == -RoundDiv(radius_speed2 * sin(angle), CosScale)
        v == vertical(m, dt)
    IN  [ base_lat |-> m.base_lat,
          base_lng |-> m.base_lng,
          angle |-> angle,
          lat |-> lat,
          lng |-> lng,
          alt |-> v.alt,
          vel_lat |-> smooth(m.vel_lat, raw_vel_lat),
          vel_lng |-> smooth(m.vel_lng, raw_vel_lng),
          vel_alt |-> v.vel_alt,
          acc_lat |-> smooth(m.acc_lat, raw_acc_lat),
          acc_lng |-> smooth(m.acc_lng, raw_acc_lng),
          acc_alt |-> v.acc_alt,
          target_lat |-> m.lat,
          target_lng |-> m.lng,
          target_alt |-> m.alt ]

\* DronePhysics.update; r_lat, r_lng are the two values random.random() returns
update(m, dt, r_lat, r_lng) ==
    LET angle == advance_angle(m.angle, dt)
        new_lat == m.base_lat + RoundDiv(radius * cos(angle), CosScale)
        new_lng == m.base_lng + RoundDiv(radius * sin(angle), CosScale)
        lat == smooth(m.lat, new_lat) + noise(r_lat)
        lng == smooth(m.lng, new_lng) + noise(r_lng)
        raw_vel_lat == -RoundDiv(radius_speed * sin(angle), CosScale)
        raw_vel_lng == RoundDiv(radius_speed * cos(angle), CosScale)
        raw_acc_lat == -RoundDiv(radius_speed2 * cos(angle), CosScale)
        raw_acc_lng == -RoundDiv(radius_speed2 * sin(angle), CosScale)
        v == vertical(m, dt)
    IN  [ base_lat |-> m.base_lat,
          base_lng |-> m.base_lng,
          angle |-> angle,
          lat |-> lat,
          lng |-> lng,
          alt |-> v.alt,
          vel_lat |-> smooth(m.vel_lat, raw_vel_lat),
          vel_lng |-> smooth(m.vel_lng, raw_vel_lng),
          vel_alt |-> v.vel_alt,
          acc_lat |-> smooth(m.acc_lat, raw_acc_lat),
          acc_lng |-> smooth(m.acc_lng, raw_acc_lng),
          acc_alt |-> v.acc_alt,
          target_lat |-> lat,
          target_lng |-> lng,
          target_alt |-> v.alt ]

----------------------------------------------------------------------------
(* random.random(): one generator for the whole process *)

\* the values the generator returns, in tenths, as a cycle; rng is the position
RandomStream == <<10, 0, 5>>

\* the value of the next random.random() call in generator state g
random_random(g) == RandomStream[g]

\* the generator state after one call
rng_next(g) == (g % Len(RandomStream)) + 1

----------------------------------------------------------------------------
(* DroneSimulator *)

drone_id == "drone-sim-1"

base_latitude == 1702985024

base_longitude == 2037077952

base_altitude == 120

physics_update_interval == 10

\* the values the wall clock takes, in milliseconds: two instants a tick apart
ClockValues == {0, physics_update_interval}

\* inbound frames: JSON text, text that is no JSON, text nested too deep to parse
Messages == {"{}", "not json", "[[[[..."}

NoMessage == "none"

\* json.loads(message): the value, or the exception it raises
json_loads(msg) ==
    CASE msg = "{}" -> "value"
      [] msg = "not json" -> "JSONDecodeError"
      [] msg = "[[[[..." -> "RecursionError"

welcome_msg ==
    [type |-> "info", message |-> "Connected to drone simulator", drone_id |-> drone_id]

gps_update(m, now) ==
    [ type |-> "gps",
      drone_id |-> drone_id,
      latitude |-> m.lat,
      longitude |-> m.lng,
      altitude |-> m.alt,
      velocity |-> [lat |-> m.vel_lat, lng |-> m.vel_lng, alt |-> m.vel_alt],
      acceleration |-> [lat |-> m.acc_lat, lng |-> m.acc_lng, alt |-> m.acc_alt],
      target |-> [lat |-> m.target_lat, lng |-> m.target_lng, alt |-> m.target_alt],
      timestamp |-> now ]

RECURSIVE SumOver(_, _)
SumOver(f, S) ==
    IF S = {} THEN 0
    ELSE LET c == CHOOSE x \in S : TRUE IN f[c] + SumOver(f, S \ {c})

\* gps frames sent so far, over all connections
GpsSent == SumOver([c \in Conns |-> IF sent[c] = <<>> THEN 0 ELSE Len(sent[c]) - 1], Conns)

\* inbound frames waiting, over all connections
Queued == SumOver([c \in Conns |-> Len(inbox[c])], Conns)

\* a send that fails as soon as any connection of the server is closed
ConnectionClosed_any(c) == \E d \in Conns : hpc[d] # "idle" /\ ~open[d]

\* websocket.send raises ConnectionClosed: the transport of c is closed
ConnectionClosed(c) == ~open[c]

InitConn ==
    /\ server = "init"
    /\ hpc = [c \in Conns |-> "idle"]
    /\ open = [c \in Conns |-> FALSE]
    /\ inbox = [c \in Conns |-> <<>>]
    /\ sent = [c \in Conns |-> <<>>]
    /\ ppc = [c \in Conns |-> "none"]
    /\ dpc = [c \in Conns |-> "none"]
    /\ message = [c \in Conns |-> NoMessage]
    /\ drone_physics = [c \in Conns |-> DronePhysics(base_latitude, base_longitude, base_altitude)]
    /\ last_time = [c \in Conns |-> 0]

Init ==
    /\ InitConn
    /\ rng = 1
    /\ clock \in ClockValues
    /\ clock_n = 0
    /\ dp = DronePhysics(base_latitude, base_longitude, base_altitude)
    /\ dp_twin = dp
    /\ dp_n = 0

\* start_server: websockets.serve returns, the listener accepts from now on
StartServer ==
    /\ server = "init"
    /\ server' = "listening"
    /\ UNCHANGED <<hpc, open, inbox, sent, ppc, dpc, message, drone_physics,
                   last_time, rng, clock, clock_n, dp, dp_twin, dp_n>>

\* time passes, or the wall clock is set back
ClockSet(t) ==
    /\ clock_n < MaxClockSets
    /\ t # clock
    /\ clock' = t
    /\ clock_n' = clock_n + 1
    /\ UNCHANGED <<server, hpc, open, inbox, sent, ppc, dpc, message, drone_physics,
                   last_time, rng, dp, dp_twin, dp_n>>

\* the listener accepts connection c and starts handle_client for it
Accept(c) ==
    /\ server = "listening"
    /\ hpc[c] = "idle"
    /\ hpc' = [hpc EXCEPT ![c] = "accepted"]
    /\ open' = [open EXCEPT ![c] = TRUE]
    /\ UNCHANGED <<server, inbox, sent, ppc, dpc, message, drone_physics,
                   last_time, rng, clock, clock_n, dp, dp_twin, dp_n>>

\* the peer closes connection c, or its transport fails
Disconnect(c) ==
    /\ open[c]
    /\ open' = [open EXCEPT ![c] = FALSE]
    /\ UNCHANGED <<server, hpc, inbox, sent, ppc, dpc, message, drone_physics,
                   last_time, rng, clock, clock_n, dp, dp_twin, dp_n>>

\* the peer sends a frame on connection c
ClientSend(c, msg) ==
    /\ open[c]
    /\ Queued < MaxInbox
    /\ inbox' = [inbox EXCEPT ![c] = Append(@, msg)]
    /\ UNCHANGED <<server, hpc, open, sent, ppc, dpc, message, drone_physics,
                   last_time, rng, clock, clock_n, dp, dp_twin, dp_n>>

\* a handler that starts both coroutines although the welcome send failed
Welcome_start_anyway(c) ==
    /\ hpc[c] = "accepted"
    /\ drone_physics' = [drone_physics EXCEPT
                           ![c] = DronePhysics(base_latitude, base_longitude, base_altitude)]
    /\ IF ConnectionClosed(c)
       THEN /\ hpc' = [hpc EXCEPT ![c] = "gather"]
            /\ ppc' = [ppc EXCEPT ![c] = "run"]
            /\ dpc' = [dpc EXCEPT ![c] = "wait"]
            /\ UNCHANGED <<sent, last_time>>
       ELSE /\ sent' = [sent EXCEPT ![c] = Append(@, welcome_msg)]
            /\ last_time' = [last_time EXCEPT ![c] = clock]
            /\ hpc' = [hpc EXCEPT ![c] = "gather"]
            /\ ppc' = [ppc EXCEPT ![c] = "run"]
            /\ dpc' = [dpc EXCEPT ![c] = "wait"]
    /\ UNCHANGED <<server, open, inbox, message, rng, clock, clock_n, dp, dp_twin, dp_n>>

\* handle_client up to asyncio.gather: the model is built and the welcome sent;
\* a failed send is caught by the handler's own except clauses
Welcome(c) ==
    /\ hpc[c] = "accepted"
    /\ drone_physics' = [drone_physics EXCEPT
                           ![c] = DronePhysics(base_latitude, base_longitude, base_altitude)]
    /\ IF ConnectionClosed(c)
       THEN /\ hpc' = [hpc EXCEPT ![c] = "done"]
            /\ UNCHANGED <<sent, last_time, ppc, dpc>>
       ELSE /\ sent' = [sent EXCEPT ![c] = Append(@, welcome_msg)]
            /\ last_time' = [last_time EXCEPT ![c] = clock]
            /\ hpc' = [hpc EXCEPT ![c] = "gather"]
            /\ ppc' = [ppc EXCEPT ![c] = "run"]
            /\ dpc' = [dpc EXCEPT ![c] = "wait"]
    /\ UNCHANGED <<server, open, inbox, message, rng, clock, clock_n, dp, dp_twin, dp_n>>

\* a publisher that sends the welcome frame again on every tick
physics_loop_sent_welcome(c, frame) ==
    /\ sent' = [sent EXCEPT ![c] = Append(Append(@, welcome_msg), frame)]
    /\ UNCHANGED ppc

\* a publisher held up while message_handler sits in a blocking delay
physics_loop_ready_blocking(c) == ppc[c] = "run" /\ dpc[c] # "delay"

\* physics_loop is at the head of its loop and ready to run: the waits of
\* message_handler are awaits, which leave the event loop to it
physics_loop_ready(c) == ppc[c] = "run"

\* a publisher that goes round its loop again after a send that raised
physics_loop_except_retry(c) ==
    /\ UNCHANGED ppc
    /\ UNCHANGED sent

\* physics_loop, the send of a tick raised: the except clauses break
physics_loop_except(c) ==
    /\ ppc' = [ppc EXCEPT ![c] = "done"]
    /\ UNCHANGED sent

\* physics_loop, the send of a tick returned: sleep, then the next iteration
physics_loop_sent(c, frame) ==
    /\ sent' = [sent EXCEPT ![c] = Append(@, frame)]
    /\ UNCHANGED ppc

\* one iteration of physics_loop: read the clock, update, send, sleep
PhysicsLoop(c) ==
    /\ hpc[c] = "gather"
    /\ physics_loop_ready(c)
    /\ open[c] => GpsSent < MaxGps
    /\ \E current_time \in {clock} :
       \E m \in {update(drone_physics[c], current_time - last_time[c],
                         random_random(rng), random_random(rng_next(rng)))} :
           /\ last_time' = [last_time EXCEPT ![c] = current_time]
           /\ drone_physics' = [drone_physics EXCEPT ![c] = m]
           /\ rng' = rng_next(rng_next(rng))
           /\ IF ConnectionClosed(c)
              THEN physics_loop_except(c)
              ELSE physics_loop_sent(c, gps_update(m, current_time))
    /\ UNCHANGED <<server, hpc, open, inbox, dpc, message, clock, clock_n, dp, dp_twin, dp_n>>

\* message_handler: the iteration over the websocket yields the next frame
DrainRecv(c) ==
    /\ hpc[c] = "gather"
    /\ dpc[c] = "wait"
    /\ inbox[c] # <<>>
    /\ message' = [message EXCEPT ![c] = Head(inbox[c])]
    /\ inbox' = [inbox EXCEPT ![c] = Tail(@)]
    /\ dpc' = [dpc EXCEPT ![c] = "delay"]
    /\ UNCHANGED <<server, hpc, open, sent, ppc, drone_physics, last_time, rng,
                   clock, clock_n, dp, dp_twin, dp_n>>

\* an iteration that never notices the closed connection
DrainClosed_never(c) ==
    /\ hpc[c] = "gather"
    /\ dpc[c] = "wait"
    /\ UNCHANGED vars

\* message_handler: the iteration ends, the connection is closed and drained
DrainClosed(c) ==
    /\ hpc[c] = "gather"
    /\ dpc[c] = "wait"
    /\ inbox[c] = <<>>
    /\ ConnectionClosed(c)
    /\ dpc' = [dpc EXCEPT ![c] = "done"]
    /\ UNCHANGED <<server, hpc, open, inbox, sent, ppc, message, drone_physics,
                   last_time, rng, clock, clock_n, dp, dp_twin, dp_n>>

\* the exceptions of json.loads the inner except clause catches
inner_except(exc) == exc = "JSONDecodeError"

\* a drain that acts on the frame it parsed by putting the model back at its start
DrainProcess_command(c) ==
    /\ hpc[c] = "gather"
    /\ dpc[c] = "delay"
    /\ LET res == json_loads(message[c])
       IN  dpc' = [dpc EXCEPT ![c] =
                     IF res = "value" \/ inner_except(res) THEN "wait" ELSE "done"]
    /\ message' = [message EXCEPT ![c] = NoMessage]
    /\ drone_physics' = [drone_physics EXCEPT
                           ![c] = DronePhysics(base_latitude, base_longitude, base_altitude)]
    /\ UNCHANGED <<server, hpc, open, inbox, sent, ppc, last_time,
                   rng, clock, clock_n, dp, dp_twin, dp_n>>

\* message_handler after asyncio.sleep(0.1): json.loads; JSONDecodeError is
\* caught inside the loop, any other exception by the outer except clauses
DrainProcess(c) ==
    /\ hpc[c] = "gather"
    /\ dpc[c] = "delay"
    /\ LET res == json_loads(message[c])
       IN  dpc' = [dpc EXCEPT ![c] =
                     IF res = "value" \/ inner_except(res) THEN "wait" ELSE "done"]
    /\ message' = [message EXCEPT ![c] = NoMessage]
    /\ UNCHANGED <<server, hpc, open, inbox, sent, ppc, drone_physics, last_time,
                   rng, clock, clock_n, dp, dp_twin, dp_n>>

\* a wait that returns as soon as one of the two coroutines has returned
gather_done_first(c) == ppc[c] = "done" \/ dpc[c] = "done"

\* asyncio.gather returns once both coroutines have returned
gather_done(c) == ppc[c] = "done" /\ dpc[c] = "done"

\* handle_client returns
Join(c) ==
    /\ hpc[c] = "gather"
    /\ gather_done(c)
    /\ hpc' = [hpc EXCEPT ![c] = "done"]
    /\ UNCHANGED <<server, open, inbox, sent, ppc, dpc, message, drone_physics,
                   last_time, rng, clock, clock_n, dp, dp_twin, dp_n>>

\* the steps of the server and of its peers
ServerNext ==
    \/ StartServer
    \/ \E c \in Conns : Accept(c)
    \/ \E c \in Conns : Disconnect(c)
    \/ \E c \in Conns, msg \in Messages : ClientSend(c, msg)
    \/ \E c \in Conns : Welcome(c)
    \/ \E c \in Conns : PhysicsLoop(c)
    \/ \E c \in Conns : DrainRecv(c)
    \/ \E c \in Conns : DrainClosed(c)
    \/ \E c \in Conns : DrainProcess(c)
    \/ \E c \in Conns : Join(c)

Next ==
    \/ ServerNext
    \/ \E t \in ClockValues : ClockSet(t)

Spec == Init /\ [][Next]_vars

\* the event loop runs every coroutine that is ready: each step of a handler
\* that stays enabled is eventually taken; the peers and the clock owe nothing
Fairness ==
    \A c \in Conns :
        /\ WF_vars(Welcome(c) \/ Join(c))
        /\ WF_vars(PhysicsLoop(c))
        /\ WF_vars(DrainRecv(c) \/ DrainClosed(c) \/ DrainProcess(c))

\* the runs of the server during which the wall clock stands still
FairInit == Init /\ clock = 0

FairNext == ServerNext

FairSpec == FairInit /\ [][FairNext]_vars /\ Fairness

----------------------------------------------------------------------------
(* The trajectory model on its own: update called on one object *)

\* centres and altitudes the stand-alone object is built with
Centers == {<<0, 0, 100>>, <<base_latitude, base_longitude, base_altitude>>}

\* the non-negative dt values update is called with, in ms: none, one tick,
\* half a circle, and a little over one full circle
DtSet == {0, physics_update_interval, 20944, 41888}

\* the values random.random() returns, in tenths
RandomValues == {0, 5, 10}

PhysInit ==
    /\ InitConn
    /\ rng = 1
    /\ clock = 0
    /\ clock_n = 0
    /\ \E ctr \in Centers : dp = DronePhysics(ctr[1], ctr[2], ctr[3])
    /\ dp_twin = dp
    /\ dp_n = 0

PhysUpdate(dt, r_lat, r_lng) ==
    /\ dp_n < MaxUpdates
    /\ dp' = update(dp, dt, r_lat, r_lng)
    /\ dp_n' = dp_n + 1
    /\ UNCHANGED <<server, hpc, open, inbox, sent, ppc, dpc, message, drone_physics,
                   last_time, rng, clock, clock_n, dp_twin>>

PhysNext == \E dt \in DtSet, r_lat \in RandomValues, r_lng \in RandomValues :
                PhysUpdate(dt, r_lat, r_lng)

PhysSpec == PhysInit /\ [][PhysNext]_vars

----------------------------------------------------------------------------
(* Two runs of the trajectory model side by side: two objects built alike,
   update called on both with the same dt, each with its own noise draws *)

TwinInit == PhysInit

TwinUpdate(dt, r_lat, r_lng, s_lat, s_lng) ==
    /\ dp_n < MaxTwinUpdates
    /\ dp' = update(dp, dt, r_lat, r_lng)
    /\ dp_twin' = update(dp_twin, dt, s_lat, s_lng)
    /\ dp_n' = dp_n + 1
    /\ UNCHANGED <<server, hpc, open, inbox, sent, ppc, dpc, message, drone_physics,
                   last_time, rng, clock, clock_n>>

TwinNext == \E dt \in DtSet, r_lat \in RandomValues, r_lng \in RandomValues,
               s_lat \in RandomValues, s_lng \in RandomValues :
                TwinUpdate(dt, r_lat, r_lng, s_lat, s_lng)

TwinSpec == TwinInit /\ [][TwinNext]_vars

----------------------------------------------------------------------------
(* The claims *)

\* the gps frames of connection c are at positions 2..Len(sent[c])
GpsFrames(c) == 2..Len(sent[c])

\* C1: once one of physics_loop and message_handler of a connection has
\* terminated, the other takes no further step: the publisher sends no frame
\* and updates nothing, the drain takes and processes no frame
C1_OtherActivityCancelled ==
    [][\A c \in Conns :
         /\ dpc[c] = "done" =>
               /\ sent'[c] = sent[c]
               /\ drone_physics'[c] = drone_physics[c]
               /\ last_time'[c] = last_time[c]
         /\ ppc[c] = "done" =>
               /\ message'[c] = message[c]
               /\ inbox'[c] = inbox[c]
               /\ dpc'[c] \in {dpc[c], "done"}]_vars

\* C2: the outbound frames of a connection are one info frame followed by gps
\* frames only, and a running or finished gather has sent the info frame
C2_InfoThenGps ==
    \A c \in Conns :
        /\ sent[c] # <<>> => sent[c][1].type = "info"
        /\ \A i \in GpsFrames(c) : sent[c][i].type = "gps"
        /\ ppc[c] # "none" => sent[c] # <<>>

\* a connection that was sent the info frame and two gps frames
C2_Witness ==
    \E c \in Conns : Len(sent[c]) = 3 /\ sent[c][3].type = "gps"

\* C3: after a frame whose parse fails the drain waits for the next frame, the
\* connection and the publisher are as they were and no frame was sent
C3_ParseFailureNonFatal ==
    [][\A c \in Conns :
         (/\ dpc[c] = "delay"
          /\ json_loads(message[c]) # "value"
          /\ dpc'[c] # "delay")
         => /\ dpc'[c] = "wait"
            /\ open'[c] = open[c]
            /\ ppc'[c] = ppc[c]
            /\ sent'[c] = sent[c]]_vars

\* C4: once the connection of a running handler is closed, physics_loop and
\* message_handler both terminate and handle_client returns
C4_DisconnectReleasesBoth ==
    \A c \in Conns :
        (hpc[c] = "gather" /\ ~open[c])
          ~> (hpc[c] = "done" /\ ppc[c] = "done" /\ dpc[c] = "done")

\* a client that disconnected mid-stream, its handler returned
C4_Witness ==
    \E c \in Conns :
        hpc[c] = "done" /\ ppc[c] = "done" /\ dpc[c] = "done" /\ Len(sent[c]) >= 2

\* a step in which connection d fails: it closes, or one of its coroutines ends
Fails(d) ==
    \/ open[d] /\ ~open'[d]
    \/ hpc[d] # "done" /\ hpc'[d] = "done"
    \/ ppc[d] # "done" /\ ppc'[d] = "done"
    \/ dpc[d] # "done" /\ dpc'[d] = "done"

\* C5: a failure of one connection leaves every other connection as it was,
\* a publisher ends only when its own connection is closed, a drain only when
\* its own connection is closed or its own frame raised, and the listener
\* stays listening and goes on accepting
C5_FailuresIsolated ==
    [][/\ \A c \in Conns : \A d \in Conns \ {c} :
            Fails(d) => /\ hpc'[c] = hpc[c]
                        /\ ppc'[c] = ppc[c]
                        /\ dpc'[c] = dpc[c]
                        /\ open'[c] = open[c]
                        /\ sent'[c] = sent[c]
       /\ \A c \in Conns :
            /\ (ppc[c] = "run" /\ ppc'[c] = "done") => ~open[c]
            /\ (dpc[c] = "wait" /\ dpc'[c] = "done") => ~open[c]
            /\ (dpc[c] = "delay" /\ dpc'[c] = "done") =>
                  json_loads(message[c]) \notin {"value", "JSONDecodeError"}
            /\ (server = "listening" /\ hpc[c] = "idle") => ENABLED Accept(c)
       /\ server = "listening" => server' = "listening"]_vars

\* one connection has failed and returned while the other still streams
C5_Witness ==
    \E c \in Conns : \E d \in Conns \ {c} :
        /\ hpc[d] = "done"
        /\ open[c] /\ ppc[c] = "run" /\ dpc[c] \in {"wait", "delay"}
        /\ Len(sent[c]) = 3

\* C6: whatever message_handler is doing, the next tick of a publisher that
\* has not terminated is enabled, and while the connection stays open the
\* next gps frame is sent (until the model's MaxGps frames are out)
C6_TelemetryNotBlocked ==
    /\ [](\A c \in Conns :
            (hpc[c] = "gather" /\ ppc[c] = "run" /\ open[c] /\ GpsSent < MaxGps)
              => ENABLED PhysicsLoop(c))
    /\ \A c \in Conns, n \in 1..MaxGps :
          (ppc[c] = "run" /\ open[c] /\ Len(sent[c]) = n /\ GpsSent < MaxGps)
            ~> (~open[c] \/ Len(sent[c]) > n \/ GpsSent >= MaxGps)

\* a gps frame was sent while the drain sat in its delay with a backlog
C6_Witness ==
    \E c \in Conns :
        /\ open[c] /\ ppc[c] = "run" /\ dpc[c] = "delay" /\ inbox[c] # <<>>
        /\ Len(sent[c]) >= 2

\* C7: the timestamps of the gps frames of a connection never decrease
C7_TimestampsNonDecreasing ==
    \A c \in Conns : \A i \in GpsFrames(c), j \in GpsFrames(c) :
        i < j => sent[c][i].timestamp <= sent[c][j].timestamp

\* C8: the angle of the model lies in [0, 2*pi)
C8_AngleInRange == 0 <= dp.angle /\ dp.angle < TwoPi

\* an update took the angle past a full circle and wrapped it
C8_Witness == dp_n >= 1 /\ dp.angle > 0 /\ dp.angle < angular_speed

\* C9: the altitude of every model is the one it was built with and its
\* vertical velocity and acceleration are 0; so are those of every gps frame
C9_AltitudeConstant ==
    \A c \in Conns :
        /\ drone_physics[c].alt = base_altitude
        /\ drone_physics[c].vel_alt = 0
        /\ drone_physics[c].acc_alt = 0
        /\ \A i \in GpsFrames(c) :
               /\ sent[c][i].altitude = base_altitude
               /\ sent[c][i].velocity.alt = 0
               /\ sent[c][i].acceleration.alt = 0

\* two gps frames were sent, the second after an update with a negative dt
C9_Witness ==
    \E c \in Conns :
        Len(sent[c]) = 3 /\ sent[c][3].timestamp < sent[c][2].timestamp

\* C10: the position is within radius + noise_amplitude of the centre
C10_PositionBounded ==
    (dp.lat - dp.base_lat) * (dp.lat - dp.base_lat)
      + (dp.lng - dp.base_lng) * (dp.lng - dp.base_lng)
      <= (radius + noise_amplitude) * (radius + noise_amplitude)

\* C11: every tick of a publisher uses an elapsed time that is not negative:
\* when the clock reads earlier than last_time the angle moves as for dt = 0
C11_ElapsedTimeNonNegative ==
    [][\A c \in Conns :
         PhysicsLoop(c) =>
             LET dt == clock - last_time[c]
             IN  drone_physics'[c].angle =
                     advance_angle(drone_physics[c].angle, IF dt < 0 THEN 0 ELSE dt)]_vars

\* C12: two runs of the model with the same dt sequence and different noise
\* draws have positions at most noise_amplitude apart on each axis at every tick
C12_NoiseNotCarried ==
    /\ dp.lat - dp_twin.lat <= noise_amplitude
    /\ dp_twin.lat - dp.lat <= noise_amplitude
    /\ dp.lng - dp_twin.lng <= noise_amplitude
    /\ dp_twin.lng - dp.lng <= noise_amplitude

\* C13: every step of message_handler leaves the models, last_time and the
\* frames sent as they were, and within a running gather only a tick of the
\* publisher changes the model or last_time of its connection
C13_DrainLeavesModel ==
    [][\A c \in Conns :
         /\ (hpc[c] = "gather" /\ dpc'[c] # dpc[c]) =>
                /\ drone_physics' = drone_physics
                /\ last_time' = last_time
                /\ sent' = sent
         /\ (hpc[c] = "gather" /\ (\/ drone_physics'[c] # drone_physics[c]
                                   \/ last_time'[c] # last_time[c])) =>
                PhysicsLoop(c)]_vars

\* the drain has taken a frame, slept, parsed it and ended on it, on an open
\* connection whose model has moved and whose publisher still runs
C13_Witness ==
    \E c \in Conns :
        /\ hpc[c] = "gather" /\ ppc[c] = "run" /\ dpc[c] = "done"
        /\ open[c]
        /\ Len(sent[c]) = 3
        /\ drone_physics[c].angle # 0

\* C14: a tick whose send fails ends the publisher; a publisher ends only on
\* a closed connection; and a publisher that has ended updates nothing and
\* sends nothing on its connection from then on
C14_NoRetry ==
    [][\A c \in Conns :
         /\ (PhysicsLoop(c) /\ ~open[c]) =>
                /\ ppc'[c] = "done"
                /\ sent'[c] = sent[c]
         /\ (ppc[c] = "run" /\ ppc'[c] = "done") => ~open[c]
         /\ ppc[c] = "done" =>
                /\ ppc'[c] = "done"
                /\ drone_physics'[c] = drone_physics[c]
                /\ last_time'[c] = last_time[c]
                /\ sent'[c] = sent[c]]_vars

\* a publisher that sent gps frames, then failed a send and ended, while the
\* handler of its connection still waits in gather for the drain
C14_Witness ==
    \E c \in Conns :
        /\ hpc[c] = "gather" /\ ppc[c] = "done" /\ dpc[c] # "done"
        /\ Len(sent[c]) = 3

\* C15: the target of every model is its position, after construction and
\* after every update, and the target of every gps frame is the latitude,
\* longitude and altitude of that frame
C15_TargetIsPosition ==
    \A c \in Conns :
        /\ drone_physics[c].target_lat = drone_physics[c].lat
        /\ drone_physics[c].target_lng = drone_physics[c].lng
        /\ drone_physics[c].target_alt = drone_physics[c].alt
        /\ \A i \in GpsFrames(c) :
               /\ sent[c][i].target.lat = sent[c][i].latitude
               /\ sent[c][i].target.lng = sent[c][i].longitude
               /\ sent[c][i].target.alt = sent[c][i].altitude

\* two gps frames of one connection at different positions, the model having
\* left the position it was built at
C15_Witness ==
    \E c \in Conns :
        /\ Len(sent[c]) = 3
        /\ sent[c][2].latitude # sent[c][3].latitude
        /\ sent[c][2].longitude # sent[c][3].longitude
        /\ drone_physics[c].lat # base_latitude + radius

\* the distance between two values on one axis
AbsDiff(a, b) == IF a >= b THEN a - b ELSE b - a

\* the change one update may make on an axis, times smooth_den: the share
\* (1 - smooth_factor) of the way to the ideal point and half the noise amplitude
ExactChangeBound(previous, ideal) ==
    (smooth_den - smooth_factor) * AbsDiff(ideal, previous)
      + smooth_den * (noise_amplitude \div 2)

\* the same with the rounding of the smoothing added: half a unit of the last place
ChangeBound(previous, ideal) == ExactChangeBound(previous, ideal) + smooth_den \div 2

\* C16 as stated: one update, whatever its dt >= 0, changes lat and lng by at
\* most (1 - smooth_factor) * |ideal - previous| + noise_amplitude / 2 exactly,
\* ideal the circle point at the new angle
C16_ExactChangeBounded ==
    [][dp_n' = dp_n + 1 =>
         LET ideal_lat == dp.base_lat + RoundDiv(radius * cos(dp'.angle), CosScale)
             ideal_lng == dp.base_lng + RoundDiv(radius * sin(dp'.angle), CosScale)
         IN  /\ smooth_den * AbsDiff(dp'.lat, dp.lat) <= ExactChangeBound(dp.lat, ideal_lat)
             /\ smooth_den * AbsDiff(dp'.lng, dp.lng) <= ExactChangeBound(dp.lng, ideal_lng)]_vars

\* C16: one update, whatever its dt >= 0, changes lat and lng by at most
\* (1 - smooth_factor) * |ideal - previous| + noise_amplitude / 2 plus the
\* rounding of the arithmetic, ideal the circle point at the new angle, and
\* does not land on an ideal point that is further away than the noise
C16_PerTickChangeBounded ==
    [][dp_n' = dp_n + 1 =>
         LET ideal_lat == dp.base_lat + RoundDiv(radius * cos(dp'.angle), CosScale)
             ideal_lng == dp.base_lng + RoundDiv(radius * sin(dp'.angle), CosScale)
         IN  /\ smooth_den * AbsDiff(dp'.lat, dp.lat) <= ChangeBound(dp.lat, ideal_lat)
             /\ smooth_den * AbsDiff(dp'.lng, dp.lng) <= ChangeBound(dp.lng, ideal_lng)
             /\ AbsDiff(ideal_lat, dp.lat) > noise_amplitude => dp'.lat # ideal_lat
             /\ AbsDiff(ideal_lng, dp.lng) > noise_amplitude => dp'.lng # ideal_lng]_vars

\* an update with a dt of half a circle: the ideal point is across the circle
\* and the position still on the side it started from
C16_Witness ==
    /\ dp_n = 1
    /\ dp.angle = advance_angle(0, 20944)
    /\ dp.lat > dp.base_lat + radius \div 2

\* C17: update(0) on a freshly built model leaves the angle at 0, velocity and
\* acceleration at the values of the circle at angle 0, the altitude and the
\* zero vertical components as built, and the position within
\* noise_amplitude / 2 on each axis of (centre_lat + radius, centre_lng)
C17_UpdateZeroOnFresh ==
    [][\A r_lat \in RandomValues, r_lng \in RandomValues :
         (dp_n = 0 /\ PhysUpdate(0, r_lat, r_lng)) =>
             /\ dp'.angle = 0
             /\ dp'.vel_lat = 0 /\ dp'.vel_lat = dp.vel_lat
             /\ dp'.vel_lng = radius_speed /\ dp'.vel_lng = dp.vel_lng
             /\ dp'.acc_lat = -radius_speed2 /\ dp'.acc_lat = dp.acc_lat
             /\ dp'.acc_lng = 0 /\ dp'.acc_lng = dp.acc_lng
             /\ dp'.alt = dp.alt
             /\ dp'.vel_alt = 0
             /\ dp'.acc_alt = 0
             /\ AbsDiff(dp'.lat, dp.base_lat + radius) <= noise_amplitude \div 2
             /\ AbsDiff(dp'.lng, dp.base_lng) <= noise_amplitude \div 2]_vars

\* the model built at centre (0, 0, 100) after one update(0) that drew the
\* largest noise on lat and the smallest on lng
C17_Witness ==
    /\ dp_n = 1
    /\ dp.base_lat = 0 /\ dp.base_lng = 0 /\ dp.alt = 100
    /\ dp.angle = 0
    /\ dp.lat = radius + noise_amplitude \div 2
    /\ dp.lng = -(noise_amplitude \div 2)

\* a step of the handler of connection c, of its publisher or of its drain
HandlerStep(c) ==
    \/ Welcome(c)
    \/ PhysicsLoop(c)
    \/ DrainRecv(c)
    \/ DrainClosed(c)
    \/ DrainProcess(c)
    \/ Join(c)

\* the gps frame connection d sends if its publisher ticks now
NextFrame(d) ==
    gps_update(update(drone_physics[d], clock - last_time[d],
                      random_random(rng), random_random(rng_next(rng))),
               clock)

\* C18: a step of one connection leaves the model, last_time and sent frames
\* of every other connection as they were, and leaves unchanged the frame a
\* running publisher of the other connection sends next, noise included
C18_NoSharedState ==
    [][\A c \in Conns : \A d \in Conns \ {c} :
         HandlerStep(c) =>
             /\ drone_physics'[d] = drone_physics[d]
             /\ last_time'[d] = last_time[d]
             /\ sent'[d] = sent[d]
             /\ (hpc[d] = "gather" /\ ppc[d] = "run") => NextFrame(d)' = NextFrame(d)]_vars

\* C19: a handler that has returned left no coroutine running: physics_loop
\* and message_handler have both terminated, or neither was ever started
C19_HandlerWaitsForBoth ==
    \A c \in Conns :
        hpc[c] = "done" =>
            \/ ppc[c] = "done" /\ dpc[c] = "done"
            \/ ppc[c] = "none" /\ dpc[c] = "none" /\ sent[c] = <<>>

\* a handler returned from gather, its client having left after the info frame
\* and before any gps frame, with nothing left to read
C19_Witness ==
    \E c \in Conns :
        /\ hpc[c] = "done" /\ ppc[c] = "done" /\ dpc[c] = "done"
        /\ Len(sent[c]) = 1
        /\ inbox[c] = <<>>

\* C20: when the send of the info frame fails, the handler ends there: neither
\* coroutine is started, no update is made and no noise drawn, no frame is
\* sent and no inbound frame taken, then or at any later time
C20_WelcomeFailure ==
    /\ [][\A c \in Conns :
             (Welcome(c) /\ ~open[c]) =>
                 /\ hpc'[c] = "done"
                 /\ ppc'[c] = "none" /\ dpc'[c] = "none"
                 /\ sent'[c] = <<>>
                 /\ inbox' = inbox
                 /\ rng' = rng]_vars
    /\ [](\A c \in Conns :
             (hpc[c] = "done" /\ sent[c] = <<>>) =>
                 /\ ppc[c] = "none" /\ dpc[c] = "none"
                 /\ message[c] = NoMessage
                 /\ drone_physics[c] =
                        DronePhysics(base_latitude, base_longitude, base_altitude))
    /\ [][\A c \in Conns :
             (hpc[c] = "done" /\ sent[c] = <<>>) =>
                 /\ hpc'[c] = "done"
                 /\ sent'[c] = <<>>
                 /\ inbox'[c] = inbox[c]]_vars

\* a client that sent a frame and left before the info frame was sent: the
\* handler has ended, the frame is still unread
C20_Witness ==
    \E c \in Conns :
        /\ hpc[c] = "done" /\ sent[c] = <<>>
        /\ ~open[c]
        /\ inbox[c] # <<>>

====
